---- MODULE Spec2Model ----
(***************************************************************************)
(* Model of the authentication token service                               *)
(* (src/core/server/services/jwt/index.ts) and of the pym.js message       *)
(* handler registration helper (onPymMessage).                             *)
(*                                                                         *)
(* Time is kept in milliseconds, as Date.now() and Date#getTime() give it. *)
(* A compact token string is modelled by its parsed structure: the number  *)
(* of dot separated segments, the header, the payload and the signature.   *)
(* A JavaScript object (sign options, verify options, claims) is a         *)
(* function from its own keys to values, and the object spread             *)
(* {...a, ...b} is Spread(a, b): the later operand wins.                   *)
(***************************************************************************)
EXTENDS Integers, Sequences, FiniteSets, TLC

VARIABLES clock, redis, issued, uuids, revoked, last, messageHandlers, disposers

vars == <<clock, redis, issued, uuids, revoked, last, messageHandlers, disposers>>

-----------------------------------------------------------------------------
(* Bounds of the model *)

TickMs == 500
MaxTicks == 4
MaxIssued == 2
MaxRegistrations == 3
MaxDisposeCalls == 2
StartMs == 1000

(* Program constants *)

MsPerSec == 1000
OneDay == 86400

-----------------------------------------------------------------------------
(* JavaScript helpers *)

\* {...a, ...b}: keys of b override keys of a
Spread(a, b) == b @@ a

\* obj[key], where a missing key reads as undefined
Has(obj, key) == key \in DOMAIN obj

\* Math.floor(a / b) and Math.ceil(a / b) for b > 0
FloorAsCeil(a, b) == -((-a) \div b)

Floor(a, b) == a \div b

CeilAsFloor(a, b) == a \div b

Ceil(a, b) == -((-a) \div b)

\* Names every JavaScript object inherits from Object.prototype
ObjectPrototypeKeys ==
    {"constructor", "toString", "toLocaleString", "valueOf", "hasOwnProperty",
     "isPrototypeOf", "propertyIsEnumerable", "__proto__"}

\* key in obj: own keys and inherited ones
In(key, ownKeys) == key \in ownKeys \cup ObjectPrototypeKeys

-----------------------------------------------------------------------------
(* Signing algorithms and the signing config *)

AsymmetricSigningAlgorithm == {"RS256", "RS384", "RS512", "ES256", "ES384", "ES512"}

SymmetricSigningAlgorithm == {"HS256", "HS384", "HS512"}

JWTSigningAlgorithm == AsymmetricSigningAlgorithm \cup SymmetricSigningAlgorithm

\* secret.replace(/\\n/g, "\n") over a secret given as a sequence of
\* characters: every backslash followed by n becomes one newline
RECURSIVE ReplaceNewlines(_)
ReplaceNewlines(s) ==
    IF Len(s) = 0 THEN << >>
    ELSE IF Len(s) >= 2 /\ s[1] = "\\" /\ s[2] = "n"
         THEN <<"\n">> \o ReplaceNewlines(SubSeq(s, 3, Len(s)))
         ELSE <<s[1]>> \o ReplaceNewlines(SubSeq(s, 2, Len(s)))

createAsymmetricSigningConfig(algorithm, secret) ==
    [secret |-> ReplaceNewlines(secret), algorithm |-> algorithm]

createSymmetricSigningConfig(algorithm, secret) ==
    [secret |-> secret, algorithm |-> algorithm]

isSymmetricSigningAlgorithm(algorithm) == In(algorithm, SymmetricSigningAlgorithm)

isAsymmetricSigningAlgorithm(algorithm) == In(algorithm, AsymmetricSigningAlgorithm)

\* The outcome of createJWTSigningConfig for the configured values
createJWTSigningConfig(algorithm, secret) ==
    IF isSymmetricSigningAlgorithm(algorithm)
    THEN [error |-> "none", config |-> createSymmetricSigningConfig(algorithm, secret)]
    ELSE IF isAsymmetricSigningAlgorithm(algorithm)
    THEN [error |-> "none", config |-> createAsymmetricSigningConfig(algorithm, secret)]
    ELSE [error |-> "AuthenticationError", config |-> [secret |-> << >>, algorithm |-> algorithm]]

-----------------------------------------------------------------------------
(* jsonwebtoken: sign, verify, decode *)

\* The signature jwt.sign computes: it binds the key and the signed
\* header and payload.  Whether the bytes would also validate under another
\* algorithm with the same key is left open, so the signature does not
\* depend on anything but the key and the signing input.
Signature(secret, header, payload) ==
    [secret |-> secret, header |-> header, payload |-> payload]

\* The registered claims jwt.sign derives from its options at time nowMs
ClaimsFromOptions(options, nowMs) ==
    LET iat == Floor(nowMs, MsPerSec)
        from(key, claim) == IF Has(options, key)
                            THEN (claim :> options[key]) ELSE << >>
        span(key, claim) == IF Has(options, key)
                            THEN (claim :> iat + options[key]) ELSE << >>
    IN  ("iat" :> iat) @@ span("expiresIn", "exp") @@ span("notBefore", "nbf")
        @@ from("audience", "aud") @@ from("issuer", "iss")
        @@ from("subject", "sub") @@ from("jwtid", "jti")

\* jwt.sign(payload, secret, options) at time nowMs
JwtSign(payload, secret, options, nowMs) ==
    LET header == [wellFormed |-> TRUE, alg |-> options["algorithm"], typ |-> "JWT"]
        body   == [isJSON |-> TRUE, claims |-> Spread(payload, ClaimsFromOptions(options, nowMs))]
    IN  [nseg |-> 3, header |-> header, payload |-> body,
         signature |-> Signature(secret, header, body)]

\* jwt.decode(tokenString, options): null for a string that is not three
\* segments or whose header does not parse, a thrown SyntaxError when a
\* header of typ JWT comes with a payload that is not JSON, the payload
\* otherwise.  The signature is not looked at.
JwtDecode(token) ==
    IF token.nseg # 3 \/ ~token.header.wellFormed
    THEN [threw |-> FALSE, isNull |-> TRUE, claims |-> << >>]
    ELSE IF token.header.typ = "JWT" /\ ~token.payload.isJSON
    THEN [threw |-> TRUE, isNull |-> FALSE, claims |-> << >>]
    ELSE [threw |-> FALSE, isNull |-> FALSE, claims |-> token.payload.claims]

JwtFailure(cause) == [error |-> "TokenInvalidError", cause |-> cause, claims |-> << >>]

\* jwt.verify(tokenString, secret, options), with the error it throws, if
\* any, already wrapped as verifyJWT's catch block wraps it
JwtVerify(token, secret, options) ==
    LET clockTimestamp == options["clockTimestamp"]
        clockTolerance == IF Has(options, "clockTolerance") THEN options["clockTolerance"] ELSE 0
        ignoreNotBefore == Has(options, "ignoreNotBefore") /\ options["ignoreNotBefore"]
        ignoreExpiration == Has(options, "ignoreExpiration") /\ options["ignoreExpiration"]
        decoded == JwtDecode(token)
        claims == token.payload.claims
    IN  IF token.nseg # 3 THEN JwtFailure("jwt malformed")
        ELSE IF decoded.threw \/ decoded.isNull THEN JwtFailure("invalid token")
        ELSE IF token.header.alg \notin options["algorithms"] THEN JwtFailure("invalid algorithm")
        ELSE IF token.signature # Signature(secret, token.header, token.payload)
             THEN JwtFailure("invalid signature")
        ELSE IF Has(claims, "nbf") /\ ~ignoreNotBefore
                /\ claims["nbf"] > clockTimestamp + clockTolerance
             THEN JwtFailure("jwt not active")
        ELSE IF Has(claims, "exp") /\ ~ignoreExpiration
                /\ clockTimestamp >= claims["exp"] + clockTolerance
             THEN JwtFailure("jwt expired")
        ELSE [error |-> "none", cause |-> "none", claims |-> claims]

-----------------------------------------------------------------------------
(* Token issuance, verification and decoding *)

signTokenStringOptionsLast(config, user, tenant, options, nowMs, uuid) ==
    JwtSign(<< >>, config.secret,
            Spread(Spread([jwtid |-> uuid, expiresIn |-> OneDay],
                          [issuer |-> tenant.id, subject |-> user.id,
                           algorithm |-> config.algorithm]),
                   options),
            nowMs)

signTokenString(config, user, tenant, options, nowMs, uuid) ==
    JwtSign(<< >>, config.secret,
            Spread(Spread([jwtid |-> uuid, expiresIn |-> OneDay], options),
                   [issuer |-> tenant.id, subject |-> user.id,
                    algorithm |-> config.algorithm]),
            nowMs)

signPATString(config, user, options, nowMs) ==
    JwtSign([pat |-> TRUE], config.secret,
            Spread(options, [subject |-> user.id, algorithm |-> config.algorithm]),
            nowMs)

signString(config, payload, options, nowMs) ==
    JwtSign(payload, config.secret,
            Spread(options, [algorithm |-> config.algorithm]), nowMs)

verifyJWTOptionsLast(tokenString, config, nowMs, options) ==
    JwtVerify(tokenString, config.secret,
              Spread([algorithms |-> {config.algorithm},
                      clockTimestamp |-> Floor(nowMs, MsPerSec)], options))

verifyJWT(tokenString, config, nowMs, options) ==
    JwtVerify(tokenString, config.secret,
              Spread(options, [algorithms |-> {config.algorithm},
                               clockTimestamp |-> Floor(nowMs, MsPerSec)]))

decodeJWT(tokenString) ==
    LET decoded == JwtDecode(tokenString)
    IN  IF decoded.threw
        THEN [error |-> "TokenInvalidError", isNull |-> FALSE, claims |-> << >>]
        ELSE [error |-> "none", isNull |-> decoded.isNull, claims |-> decoded.claims]

-----------------------------------------------------------------------------
(* Request token extraction *)

NoToken == [present |-> FALSE, token |-> ""]

Token(t) == [present |-> TRUE, token |-> t]

\* Bearer#check of permit: the Authorization header first (a Bearer scheme,
\* then the password of a Basic scheme when the basic option is set), then
\* the query parameter when the query option is set
BearerCheck(options, req) ==
    IF req.authorization.scheme = "Bearer" THEN req.authorization.credentials
    ELSE IF Has(options, "basic") /\ req.authorization.scheme = "Basic"
            /\ req.authorization.credentials.present
         THEN req.authorization.credentials
    ELSE IF Has(options, "query") /\ Has(req.query, options["query"])
         THEN Token(req.query[options["query"]])
    ELSE NoToken

extractJWTAlwaysQuery(req, excludeQuery) ==
    LET found == BearerCheck(Spread([basic |-> "password"], [query |-> "accessToken"]), req)
    IN  IF found.present /\ found.token # "" THEN found ELSE NoToken

\* permit.check(req) || null: an empty or missing token reads as null
extractJWTFromRequest(req, excludeQuery) ==
    LET options == IF ~excludeQuery
                   THEN Spread([basic |-> "password"], [query |-> "accessToken"])
                   ELSE [basic |-> "password"]
        found == BearerCheck(options, req)
    IN  IF found.present /\ found.token # "" THEN found ELSE NoToken

-----------------------------------------------------------------------------
(* Revocation ledger *)

generateJTIRevokedKey(jti) == "jtir:" \o jti

\* GET key: nil for a key that is missing or has expired
RedisGet(store, key, nowMs) ==
    IF key \in DOMAIN store /\ nowMs < store[key].expireAt
    THEN [nil |-> FALSE, value |-> store[key].value]
    ELSE [nil |-> TRUE, value |-> ""]

\* SETEX key seconds value: an error reply unless seconds is positive
RedisSetexOk(seconds) == seconds > 0

RedisSetex(store, key, seconds, value, nowMs) ==
    (key :> [value |-> value, expireAt |-> nowMs + seconds * MsPerSec]) @@ store

\* The store after revokeJWT at time nowMs, validFor given in milliseconds
\* (validFor itself is a number of seconds, possibly fractional)
revokeJWT(store, jti, validForMs, nowMs) ==
    LET seconds == Ceil(validForMs, MsPerSec)
    IN  IF RedisSetexOk(seconds)
        THEN RedisSetex(store, generateJTIRevokedKey(jti), seconds, ToString(nowMs), nowMs)
        ELSE store

revokeJWTError(validForMs) ==
    IF RedisSetexOk(Ceil(validForMs, MsPerSec)) THEN "none" ELSE "ReplyError"

\* The error checkJWTRevoked throws, "none" when it returns
checkJWTRevoked(store, jti, nowMs) ==
    LET expiredAtString == RedisGet(store, generateJTIRevokedKey(jti), nowMs)
    IN  IF ~expiredAtString.nil /\ expiredAtString.value # ""
        THEN "AuthenticationError" ELSE "none"

-----------------------------------------------------------------------------
(* Inputs *)

Users == {[id |-> "u1"]}

Tenants == {[id |-> "t1"]}

Secret == <<"k", "\\", "n">>

OtherSecret == <<"z">>

\* The times the clock and a caller supplied now can take
Times == {StartMs + k * TickMs : k \in 0..MaxTicks}

\* Signing configs as createJWTSigningConfig resolves them
ConfigOf(algorithm, secret) == createJWTSigningConfig(algorithm, secret).config

LedgerConfigs == {ConfigOf("HS256", Secret)}

\* Options that move the validity window of a session token
WindowOptions == {<< >>, [expiresIn |-> 1], [expiresIn |-> 2]}

\* Caller options of a session token: none, a chosen jti, a validity window,
\* and values for the fields signTokenString sets itself
SessionOptions ==
    {<< >>, [jwtid |-> "x"], [expiresIn |-> 2, notBefore |-> 1],
     [issuer |-> "t2", subject |-> "u2", algorithm |-> "HS512", audience |-> "a"]}

PatOptions == {[expiresIn |-> 1], [issuer |-> "t2", subject |-> "u2", algorithm |-> "none"]}

Payloads == {[role |-> "admin"]}

StringOptions == {<< >>, [expiresIn |-> 2, subject |-> "u1", jwtid |-> "x"]}

CodecConfigs == {ConfigOf("HS256", Secret), ConfigOf("HS384", Secret), ConfigOf("RS256", Secret)}

VerifyConfigs == {ConfigOf(algorithm, secret) :
                     algorithm \in JWTSigningAlgorithm, secret \in {Secret, OtherSecret}}

\* Verify options, among them the two keys verifyJWT's type leaves out
VerifyOptions ==
    {<< >>, [algorithms |-> JWTSigningAlgorithm], [clockTimestamp |-> 1],
     [clockTolerance |-> 1], [ignoreExpiration |-> TRUE], [ignoreNotBefore |-> TRUE]}

\* Configured algorithm names: the nine identifiers, misspellings, and names
\* every object inherits
ConfiguredAlgorithms ==
    JWTSigningAlgorithm \cup {"", "hs256", "HS257", "none", "toString", "constructor"}

ConfiguredSecrets == {Secret, OtherSecret}

\* Requests: an Authorization header (or none) and the query parameters
Authorizations ==
    {[scheme |-> "none", credentials |-> NoToken]}
    \cup [scheme : {"Bearer", "Basic", "Digest"},
          credentials : {NoToken, Token(""), Token("t1")}]

Queries == {<< >>, [accessToken |-> "t2"], [accessToken |-> ""], [token |-> "t3"]}

Requests == [authorization : Authorizations, query : Queries]

\* Token strings, well formed and not: the segments, whether the header and
\* the payload parse, the header's typ
TokenString(nseg, headerParses, typ, payloadParses) ==
    LET header == [wellFormed |-> headerParses,
                   alg |-> IF headerParses THEN "HS256" ELSE "",
                   typ |-> IF headerParses THEN typ ELSE ""]
        payload == [isJSON |-> payloadParses,
                    claims |-> IF payloadParses THEN [sub |-> "u1", jti |-> "x"] ELSE << >>]
    IN  [nseg |-> nseg, header |-> header, payload |-> payload,
         signature |-> Signature(OtherSecret, header, payload)]

TokenStrings ==
    {TokenString(nseg, headerParses, typ, payloadParses) :
        nseg \in 1..4, headerParses \in BOOLEAN, typ \in {"JWT", "JOSE"},
        payloadParses \in BOOLEAN}

WellFormed(tokenString) ==
    tokenString.nseg = 3 /\ tokenString.header.wellFormed /\ tokenString.payload.isJSON

MessageTypes == {"height", "navigate"}

Callbacks == {"cb1", "cb2"}

\* validFor values, in milliseconds: negative, zero, fractional and whole seconds
ValidForMs == {-500, 0, 500, 1500, 2000}

JtiOf(token) == IF Has(token.payload.claims, "jti") THEN {token.payload.claims["jti"]} ELSE {}

IssuedJtis == UNION {JtiOf(issued[i].token) : i \in 1..Len(issued)}

\* A jti no token carries
DecoyJti == "x"

-----------------------------------------------------------------------------
(* State *)

Init ==
    /\ clock = StartMs
    /\ redis = << >>
    /\ issued = << >>
    /\ uuids = 0
    /\ revoked = << >>
    /\ last = [op |-> "init"]
    /\ messageHandlers = << >>
    /\ disposers = << >>

UuidRepeated(n) == "uuid-0"

\* uuid(): a value no earlier call returned
Uuid(n) == "uuid-" \o ToString(n)

\* The wall clock advances; the store drops the records whose TTL elapsed
Tick ==
    /\ clock < StartMs + MaxTicks * TickMs
    /\ clock' = clock + TickMs
    /\ redis' = [k \in {k \in DOMAIN redis : redis[k].expireAt > clock'} |-> redis[k]]
    /\ last' = [op |-> "tick"]
    /\ UNCHANGED <<issued, uuids, revoked, messageHandlers, disposers>>

Issue(fn, config, options, token) ==
    /\ issued' = Append(issued, [fn |-> fn, config |-> config, options |-> options,
                                 token |-> token])
    /\ UNCHANGED <<clock, redis, revoked, messageHandlers, disposers>>

SignTokenString(config, user, tenant, options) ==
    LET token == signTokenString(config, user, tenant, options, clock, Uuid(uuids + 1))
    IN  /\ Issue("signTokenString", config, options, token)
        /\ uuids' = uuids + 1
        /\ last' = [op |-> "signTokenString", config |-> config, user |-> user,
                    tenant |-> tenant, options |-> options, token |-> token]

SignPATString(config, user, options) ==
    LET token == signPATString(config, user, options, clock)
    IN  /\ Issue("signPATString", config, options, token)
        /\ uuids' = uuids
        /\ last' = [op |-> "signPATString", config |-> config, user |-> user,
                    options |-> options, token |-> token]

SignString(config, payload, options) ==
    LET token == signString(config, payload, options, clock)
    IN  /\ Issue("signString", config, options, token)
        /\ uuids' = uuids
        /\ last' = [op |-> "signString", config |-> config, payload |-> payload,
                    options |-> options, token |-> token]

\* Whether validFor reaches the end of the validity window of every issued
\* token that carries this jti
Covers(jti, validForMs) ==
    \A i \in 1..Len(issued) :
        LET claims == issued[i].token.payload.claims
        IN  (Has(claims, "jti") /\ claims["jti"] = jti /\ Has(claims, "exp"))
                => validForMs >= claims["exp"] * MsPerSec - clock

\* revoked remembers, for every jti revokeJWT wrote a record for, whether
\* every such call so far passed a validFor that covers the token's remaining
\* lifetime
RevokeJWT(jti, validForMs) ==
    /\ redis' = revokeJWT(redis, jti, validForMs, clock)
    /\ revoked' = IF revokeJWTError(validForMs) = "none"
                  THEN (jti :> (Covers(jti, validForMs) /\ (Has(revoked, jti) => revoked[jti])))
                       @@ revoked
                  ELSE revoked
    /\ last' = [op |-> "revokeJWT", jti |-> jti, validForMs |-> validForMs,
                error |-> revokeJWTError(validForMs)]
    /\ UNCHANGED <<clock, issued, uuids, messageHandlers, disposers>>

\* after tells whether the call comes right after a revokeJWT of the same
\* jti, and whether that call passed a positive validFor
CheckJWTRevoked(jti) ==
    /\ last' = [op |-> "checkJWTRevoked", jti |-> jti,
                error |-> checkJWTRevoked(redis, jti, clock),
                wasRevoked |-> Has(revoked, jti),
                after |-> IF last.op = "revokeJWT" /\ last.jti = jti
                          THEN [revoke |-> TRUE, positive |-> last.validForMs > 0]
                          ELSE [revoke |-> FALSE, positive |-> FALSE]]
    /\ UNCHANGED <<clock, redis, issued, uuids, revoked, messageHandlers, disposers>>

VerifyJWT(i, config, nowMs, options) ==
    /\ last' = [op |-> "verifyJWT", issue |-> issued[i], config |-> config, nowMs |-> nowMs,
                options |-> options,
                result |-> verifyJWT(issued[i].token, config, nowMs, options)]
    /\ UNCHANGED <<clock, redis, issued, uuids, revoked, messageHandlers, disposers>>

-----------------------------------------------------------------------------
(* The revocation ledger: one session token, the clock and the store *)

Next ==
    \/ Tick
    \/ \E config \in LedgerConfigs, user \in Users, tenant \in Tenants, options \in WindowOptions :
          issued = << >> /\ SignTokenString(config, user, tenant, options)
    \/ \E jti \in IssuedJtis \cup {DecoyJti}, validForMs \in ValidForMs : RevokeJWT(jti, validForMs)
    \/ \E jti \in IssuedJtis \cup {DecoyJti} : CheckJWTRevoked(jti)

Spec == Init /\ [][Next]_vars

-----------------------------------------------------------------------------
(* Properties of the revocation ledger *)

\* C2, as stated: for every validFor, a checkJWTRevoked that comes right
\* after revokeJWT of the same jti fails with an AuthenticationError, and
\* checkJWTRevoked of a jti that was never revoked succeeds.
C2_AnyValidFor ==
    last.op = "checkJWTRevoked" =>
        /\ last.after.revoke => last.error = "AuthenticationError"
        /\ ~last.wasRevoked => last.error = "none"

\* C2, amended: for every validFor > 0, a checkJWTRevoked that comes right
\* after revokeJWT of the same jti fails with an AuthenticationError, and
\* checkJWTRevoked of a jti that was never revoked succeeds, whatever other
\* jtis have been revoked.
C2_PositiveValidFor ==
    last.op = "checkJWTRevoked" =>
        /\ (last.after.revoke /\ last.after.positive) => last.error = "AuthenticationError"
        /\ ~last.wasRevoked => last.error = "none"

C2_Witness ==
    /\ last.op = "checkJWTRevoked"
    /\ last.after.revoke /\ last.after.positive
    /\ last.error = "AuthenticationError"
    /\ \E jti \in DOMAIN revoked : jti # last.jti

\* Both steps of the verification pipeline, verifyJWT(token, config, now) and
\* checkJWTRevoked(store, jti), let the token of issue i through at the
\* current time
Accepted(i) ==
    /\ verifyJWT(issued[i].token, issued[i].config, clock, << >>).error = "none"
    /\ \A jti \in JtiOf(issued[i].token) : checkJWTRevoked(redis, jti, clock) = "none"

\* C3, as stated: once a token's jti has been revoked, by whatever sequence
\* of revokeJWT calls, verifyJWT and checkJWTRevoked never both succeed for
\* that token.
C3_AnyRevocation ==
    \A i \in 1..Len(issued) :
        (\E jti \in JtiOf(issued[i].token) : Has(revoked, jti)) => ~Accepted(i)

\* C3, amended: once a token's jti has been revoked by revokeJWT calls that
\* each passed a validFor of at least the token's remaining lifetime
\* (exp - now), verifyJWT and checkJWTRevoked never both succeed for that
\* token; revokeJWT itself does not compare validFor with the token's exp.
C3_CoveringRevocation ==
    \A i \in 1..Len(issued) :
        (\E jti \in JtiOf(issued[i].token) : Has(revoked, jti) /\ revoked[jti]) => ~Accepted(i)

\* The record of a covering revocation has expired, after the token did
C3_Witness ==
    \E i \in 1..Len(issued) :
        /\ \E jti \in JtiOf(issued[i].token) :
              /\ Has(revoked, jti) /\ revoked[jti]
              /\ checkJWTRevoked(redis, jti, clock) = "none"
        /\ verifyJWT(issued[i].token, issued[i].config, clock, << >>).cause = "jwt expired"

-----------------------------------------------------------------------------
(* The codec: one token is issued, then verified in every way *)

NextCodec ==
    \/ \E config \in CodecConfigs, user \in Users, tenant \in Tenants, options \in SessionOptions :
          issued = << >> /\ SignTokenString(config, user, tenant, options)
    \/ \E config \in CodecConfigs, user \in Users, options \in PatOptions :
          issued = << >> /\ SignPATString(config, user, options)
    \/ \E config \in CodecConfigs, payload \in Payloads, options \in StringOptions :
          issued = << >> /\ SignString(config, payload, options)
    \/ \E i \in 1..Len(issued), config \in VerifyConfigs, nowMs \in Times, options \in VerifyOptions :
          VerifyJWT(i, config, nowMs, options)

SpecCodec == Init /\ [][NextCodec]_vars

RelaxesTime(options) ==
    \/ Has(options, "clockTolerance")
    \/ Has(options, "ignoreExpiration")
    \/ Has(options, "ignoreNotBefore")

\* C4: for a correctly signed token, verifyJWT called with now and no option
\* that relaxes time validation succeeds exactly when nbf <= now < exp, now
\* taken in whole seconds by flooring its milliseconds: it fails with
\* TokenInvalid before nbf and at or after exp, succeeds at now == nbf and
\* fails at now == exp, also when the options carry a clockTimestamp of
\* their own.
C4_ValidityWindow ==
    (last.op = "verifyJWT" /\ last.config = last.issue.config /\ ~RelaxesTime(last.options)) =>
        LET claims == last.issue.token.payload.claims
            active == Has(claims, "nbf") => last.nowMs >= claims["nbf"] * MsPerSec
            fresh == Has(claims, "exp") => last.nowMs < claims["exp"] * MsPerSec
        IN  /\ (active /\ fresh) => last.result.error = "none"
            /\ ~(active /\ fresh) => last.result.error = "TokenInvalidError"

\* The boundary now == nbf, of a token that also expires
C4_Witness ==
    /\ last.op = "verifyJWT" /\ last.config = last.issue.config /\ last.options = << >>
    /\ Has(last.issue.token.payload.claims, "nbf")
    /\ Has(last.issue.token.payload.claims, "exp")
    /\ last.nowMs = last.issue.token.payload.claims["nbf"] * MsPerSec
    /\ last.result.error = "none"

\* C5: whatever the caller's options, the token signTokenString issues has
\* issuer = tenant.id, subject = user.id and is signed with config.algorithm.
C5_IdentityNotOverridable ==
    last.op = "signTokenString" =>
        /\ last.token.payload.claims["iss"] = last.tenant.id
        /\ last.token.payload.claims["sub"] = last.user.id
        /\ last.token.header.alg = last.config.algorithm
        /\ last.token.signature
              = Signature(last.config.secret,
                          [wellFormed |-> TRUE, alg |-> last.config.algorithm, typ |-> "JWT"],
                          last.token.payload)

\* Options that carry a conflicting issuer, subject and algorithm
C5_Witness ==
    /\ last.op = "signTokenString"
    /\ Has(last.options, "issuer") /\ last.options["issuer"] # last.tenant.id
    /\ Has(last.options, "subject") /\ last.options["subject"] # last.user.id
    /\ Has(last.options, "algorithm") /\ last.options["algorithm"] # last.config.algorithm
    /\ last.token.payload.claims["iss"] = last.tenant.id

-----------------------------------------------------------------------------
(* Issuance of session tokens, one after the other *)

NextIssue ==
    \E config \in CodecConfigs, user \in Users, tenant \in Tenants, options \in SessionOptions :
        Len(issued) < MaxIssued /\ SignTokenString(config, user, tenant, options)

SpecIssue == Init /\ [][NextIssue]_vars

SessionIssues == {i \in 1..Len(issued) : issued[i].fn = "signTokenString"}

\* C9, as stated: whatever the caller's options, no two tokens issued by
\* signTokenString share a jti.
C9_AnyOptions ==
    \A i, j \in SessionIssues :
        i # j => issued[i].token.payload.claims["jti"] # issued[j].token.payload.claims["jti"]

\* C9, amended: no two tokens that signTokenString issued for options without
\* a jwtid share a jti, nor a revocation key; a jwtid in the options replaces
\* the generated one.
C9_GeneratedJtiFresh ==
    \A i, j \in SessionIssues :
        (i # j /\ ~Has(issued[i].options, "jwtid") /\ ~Has(issued[j].options, "jwtid")) =>
            /\ issued[i].token.payload.claims["jti"] # issued[j].token.payload.claims["jti"]
            /\ generateJTIRevokedKey(issued[i].token.payload.claims["jti"])
                  # generateJTIRevokedKey(issued[j].token.payload.claims["jti"])

C9_Witness ==
    \E i, j \in SessionIssues :
        /\ i # j /\ ~Has(issued[i].options, "jwtid") /\ ~Has(issued[j].options, "jwtid")
        /\ issued[i].config = issued[j].config /\ issued[i].options = issued[j].options
        /\ issued[i].token # issued[j].token

-----------------------------------------------------------------------------
(* The stateless gates: config resolution, token extraction, decoding *)

CreateJWTSigningConfig(algorithm, secret) ==
    /\ last' = [op |-> "createJWTSigningConfig", algorithm |-> algorithm, secret |-> secret,
                result |-> createJWTSigningConfig(algorithm, secret)]
    /\ UNCHANGED <<clock, redis, issued, uuids, revoked, messageHandlers, disposers>>

ExtractJWTFromRequest(req, excludeQuery) ==
    /\ last' = [op |-> "extractJWTFromRequest", req |-> req, excludeQuery |-> excludeQuery,
                result |-> extractJWTFromRequest(req, excludeQuery)]
    /\ UNCHANGED <<clock, redis, issued, uuids, revoked, messageHandlers, disposers>>

DecodeJWT(tokenString) ==
    /\ last' = [op |-> "decodeJWT", tokenString |-> tokenString,
                result |-> decodeJWT(tokenString)]
    /\ UNCHANGED <<clock, redis, issued, uuids, revoked, messageHandlers, disposers>>

NextGate ==
    \/ \E algorithm \in ConfiguredAlgorithms, secret \in ConfiguredSecrets :
          CreateJWTSigningConfig(algorithm, secret)
    \/ \E req \in Requests, excludeQuery \in BOOLEAN : ExtractJWTFromRequest(req, excludeQuery)
    \/ \E tokenString \in TokenStrings : DecodeJWT(tokenString)

SpecGate == Init /\ [][NextGate]_vars

\* C6: createJWTSigningConfig returns a config exactly for the nine
\* enumerated algorithm identifiers and fails with an AuthenticationError for
\* every other configured string, names inherited by every object included.
C6_OnlyEnumeratedAlgorithms ==
    last.op = "createJWTSigningConfig" =>
        IF last.algorithm \in JWTSigningAlgorithm
        THEN last.result.error = "none"
        ELSE last.result.error = "AuthenticationError"

BearerToken(req) ==
    req.authorization.scheme = "Bearer" /\ req.authorization.credentials.present
    /\ req.authorization.credentials.token # ""

BasicPassword(req) ==
    req.authorization.scheme = "Basic" /\ req.authorization.credentials.present
    /\ req.authorization.credentials.token # ""

QueryToken(req) == Has(req.query, "accessToken") /\ req.query["accessToken"] # ""

\* C7: with excludeQuery = true a token present only in the query string is
\* never returned (the result is null); with excludeQuery = false, no Bearer
\* header and no Basic password, the accessToken query parameter is returned;
\* a Bearer token wins over everything else, a Basic password over the query.
C7_ExtractionPrecedence ==
    last.op = "extractJWTFromRequest" =>
        LET req == last.req
        IN  /\ (last.excludeQuery /\ ~BearerToken(req) /\ ~BasicPassword(req))
                  => last.result = NoToken
            /\ (~last.excludeQuery /\ req.authorization.scheme # "Bearer"
                  /\ ~(req.authorization.scheme = "Basic" /\ req.authorization.credentials.present)
                  /\ QueryToken(req))
                  => last.result = Token(req.query["accessToken"])
            /\ (BearerToken(req) \/ BasicPassword(req))
                  => last.result = req.authorization.credentials

\* A token that is in the query string only, with excludeQuery = true
C7_Witness ==
    /\ last.op = "extractJWTFromRequest"
    /\ last.excludeQuery /\ QueryToken(last.req)
    /\ last.req.authorization.scheme = "none"
    /\ last.result = NoToken

\* C8: decodeJWT fails with a TokenInvalid error for every token string that
\* is not a well formed three segment token, never returning a value such as
\* null for it, and returns the payload of a well formed one.
C8_MalformedRejected ==
    last.op = "decodeJWT" =>
        IF WellFormed(last.tokenString)
        THEN /\ last.result.error = "none" /\ ~last.result.isNull
             /\ last.result.claims = last.tokenString.payload.claims
        ELSE last.result.error = "TokenInvalidError"

-----------------------------------------------------------------------------
(* Pym message handlers *)

\* child.onMessage(messageType, callback) of pym.js
onMessage(handlers, messageType, callback) ==
    IF ~Has(handlers, messageType)
    THEN (messageType :> <<callback>>) @@ handlers
    ELSE [handlers EXCEPT ![messageType] = Append(@, callback)]

\* Array.prototype.indexOf: the first index of value, 0 for none
IndexOf(list, value) ==
    IF \E k \in 1..Len(list) : list[k] = value
    THEN CHOOSE k \in 1..Len(list) : list[k] = value /\ \A m \in 1..(k - 1) : list[m] # value
    ELSE 0

\* list.splice(index, 1)
Splice(list, index) == SubSeq(list, 1, index - 1) \o SubSeq(list, index + 1, Len(list))

\* child.messageHandlers after a call of the disposer onPymMessage returned
\* for (messageType, callback)
disposer(handlers, messageType, callback) ==
    IF ~Has(handlers, messageType) THEN handlers
    ELSE LET index == IndexOf(handlers[messageType], callback)
         IN  IF index = 0 THEN handlers
             ELSE LET rest == Splice(handlers[messageType], index)
                  IN  IF Len(rest) = 0
                      THEN [t \in DOMAIN handlers \ {messageType} |-> handlers[t]]
                      ELSE [handlers EXCEPT ![messageType] = rest]

\* onPymMessage(child, messageType, callback): registers and hands out a disposer
OnPymMessage(messageType, callback) ==
    /\ Len(disposers) < MaxRegistrations
    /\ messageHandlers' = onMessage(messageHandlers, messageType, callback)
    /\ disposers' = Append(disposers, [messageType |-> messageType, callback |-> callback,
                                       calls |-> 0])
    /\ UNCHANGED <<clock, redis, issued, uuids, revoked, last>>

\* A call of the disposer of registration i
Dispose(i) ==
    /\ disposers[i].calls < MaxDisposeCalls
    /\ messageHandlers' = disposer(messageHandlers, disposers[i].messageType,
                                   disposers[i].callback)
    /\ disposers' = [disposers EXCEPT ![i].calls = @ + 1]
    /\ UNCHANGED <<clock, redis, issued, uuids, revoked, last>>

NextPym ==
    \/ \E messageType \in MessageTypes, callback \in Callbacks : OnPymMessage(messageType, callback)
    \/ \E i \in 1..Len(disposers) : Dispose(i)

SpecPym == Init /\ [][NextPym]_vars

\* How often callback is registered for messageType in child.messageHandlers
Occurrences(messageType, callback) ==
    IF Has(messageHandlers, messageType)
    THEN Cardinality({k \in 1..Len(messageHandlers[messageType]) :
                         messageHandlers[messageType][k] = callback})
    ELSE 0

\* The registrations of (messageType, callback) whose disposer was never called
Live(messageType, callback) ==
    {i \in 1..Len(disposers) :
        /\ disposers[i].messageType = messageType /\ disposers[i].callback = callback
        /\ disposers[i].calls = 0}

\* C10: a disposer removes one occurrence of its callback on its first call
\* and nothing on later calls, so child.messageHandlers holds exactly the
\* registrations whose own disposer has not been called, and no message type
\* is mapped to an empty list.
C10_DisposerOwnsRegistration ==
    /\ \A messageType \in MessageTypes, callback \in Callbacks :
          Occurrences(messageType, callback) = Cardinality(Live(messageType, callback))
    /\ \A messageType \in DOMAIN messageHandlers : Len(messageHandlers[messageType]) > 0

====
